---- MODULE Spec2Model ----
(***************************************************************************)
(* A model of server.js: the arena server's player registry, resource      *)
(* ("pill") pool, score ledger, session tokens and the two leaderboards.   *)
(*                                                                         *)
(* Every handler of server.js is a function from server state to server    *)
(* state (the record built by State); an action applies one handler to     *)
(* inputs drawn from small sets.  Node runs one handler to completion      *)
(* before the next, so one action is one handler.                          *)
(*                                                                         *)
(* Strings are sequences of one-character strings, so that trim() and      *)
(* substring() are computed.  Times are milliseconds; the calendar is the  *)
(* local one with day k covering [k * DAY_MS, (k + 1) * DAY_MS).           *)
(* Socket ids are the connection numbers 1, 2, ...: socket.io never hands  *)
(* out an id twice.  Pill ids and session tokens are drawn from counters:  *)
(* the code builds them from Date.now() and Math.random().                 *)
(* Cosmetic player fields that no server code reads (color, angle,         *)
(* direction, weaponAngle, kills, lastActivity) and the timestamps of      *)
(* ledger and all-time entries are left out.                               *)
(*                                                                         *)
(* The three files read at startup are one of a few documents (see         *)
(* Loaders).  allTimeLeaderboard is kept as a pair: whether the variable   *)
(* holds an array, and its entries.  An exception no code catches ends     *)
(* the process (crashed).  Timers are variables holding their next firing  *)
(* (sweepDue, tickDue, rampDue, spawnDue) or, for the setTimeout of        *)
(* respawn, the list of pending callbacks (respawns); RampTimer and        *)
(* SpawnTimer are the spawn timers firing at any time, RampTimerDue and    *)
(* SpawnTimerDue the same timers firing on the clock.                      *)
(***************************************************************************)
EXTENDS Integers, Sequences, FiniteSets, TLC

VARIABLES
    now,                  \* Date.now()
    players,              \* gameState.players: socket id -> player
    nextPlayerId,         \* nextPlayerId
    pills,                \* gameState.pills, in insertion order
    pillSeq,              \* number of pill ids handed out
    playerScores,         \* playerScores: <<name, socket id>> -> record
    sessionTokens,        \* sessionTokens: token -> record
    tokenSeq,             \* number of session tokens handed out
    dailyLeaderboard,     \* dailyLeaderboard
    allTimeLeaderboard,   \* allTimeLeaderboard
    initialPillsSpawned,  \* initialPillsSpawned
    rampActive,           \* initialSpawnInterval not yet cleared
    allTimeIsArray,       \* whether allTimeLeaderboard holds an array
    respawns,             \* pending setTimeout callbacks of respawn, in order
    crashed,              \* an uncaught exception has ended the process
    sweepDue,             \* next firing of the hourly token sweep
    tickDue,              \* next firing of the one-second countdown
    rampDue,              \* next firing of initialSpawnInterval
    spawnDue,             \* next firing of the steady-state spawn timer
    emitted,              \* messages sent by the last handler, in order
    lastEvent,            \* the event the last handler was run for
    acct,                 \* observer: per player, its last score assignment
    lastAccept,           \* observer: per player, time of its last move that was relayed
    mintLog,              \* observer: every token ever sent to a client
    resetCount,           \* observer: dailyLeaderboardReset broadcasts seen
    bestReported,         \* observer: per name, the best score a collection reported
    everFull,             \* observer: the pool has held MAX_PILLS pills
    collected             \* observer: per pill id, the pillCollected messages that carried it

vars == <<now, players, nextPlayerId, pills, pillSeq, playerScores,
          sessionTokens, tokenSeq, dailyLeaderboard, allTimeLeaderboard,
          initialPillsSpawned, rampActive, allTimeIsArray, respawns, crashed,
          sweepDue, tickDue, rampDue, spawnDue, emitted, lastEvent, acct,
          lastAccept, mintLog,
          resetCount, bestReported, everFull, collected>>

---------------------------------------------------------------------------
(* Program constants *)

MAX_PILLS == 30
PILL_SPAWN_INTERVAL == 500
PILL_SIZE == 45
PLAYER_RADIUS == 20
MOVE_THROTTLE_MS == 16
MAX_NAME_LENGTH == 15
ALL_TIME_TOP == 3
DAILY_TOP == 10
PLAYER_HEALTH == 100
TWENTY_FOUR_HOURS == 24 * 60 * 60 * 1000
SWEEP_INTERVAL == 60 * 60 * 1000
TICK_INTERVAL == 1000
RAMP_INTERVAL == 100
DAY_MS == 24 * 60 * 60 * 1000
RESPAWN_TIME == 3000

---------------------------------------------------------------------------
(* Bounds of the model *)

MaxConnections == 2     \* sockets opened in one run
MaxSpawns == 2          \* pills created in one run of the game
MaxElapsed == 16        \* milliseconds a run of the game lasts
MaxSessionConnections == 2  \* sockets opened in a run over a day
MaxSessionSpawns == 1   \* pills created in a run over a day
MaxTokenConnections == 2  \* sockets opened in a run of redemptions
MaxTokenSpawns == 1     \* pills created in a run of redemptions
MaxBoardConnections == 2  \* sockets opened in a run of score reports
MaxBoardSpawns == 4     \* pills created in a run of score reports
MaxBoardElapsed == 16   \* milliseconds a run of score reports lasts
MaxPoolSpawns == 32     \* pills created in a run that fills the pool
MaxPoolElapsed == 16    \* milliseconds of moves in a run that fills the pool
MaxPoolConnections == 1  \* sockets opened in a run that fills the pool
MaxMoveConnections == 2  \* sockets opened in a run of moves
MaxMoveSpawns == 2      \* pills created in a run of moves
MaxMoveElapsed == 32    \* milliseconds a run of moves lasts
MaxDailyConnections == 1  \* sockets opened in a run across midnight
MaxDailySpawns == 2     \* pills created in a run across midnight
MaxTickLate == 500      \* milliseconds the countdown may fire late
MaxLiveConnections == 1  \* sockets opened in a run of replenishments
MaxLiveElapsed == 16    \* milliseconds of moves in a run of replenishments
MaxLoadConnections == 1  \* sockets opened in a run after a startup
MaxLoadSpawns == 1      \* pills created in a run after a startup
MaxReportConnections == 2  \* sockets opened in a run of daily reports
MaxReportSpawns == 3    \* pills created in a run of daily reports
MaxReportElapsed == 16  \* milliseconds a run of daily reports lasts
MaxRampConnections == 1  \* sockets opened in a run of the ramp
MaxRampElapsed == 3200  \* milliseconds a run of the ramp lasts
MaxRespawnConnections == 2  \* sockets opened in a run of respawns
MaxRespawnSpawns == 1   \* pills created in a run of respawns
MaxRespawnsPending == 2  \* respawn callbacks pending at a time
MaxRespawnElapsed == 6000  \* milliseconds a run of respawns lasts
MaxNameConnections == 2  \* sockets opened in a run of namings
MaxNameSpawns == 2      \* pills created in a run of namings
MaxPayloadConnections == 2  \* sockets opened in a run of incomplete moves
MaxPayloadSpawns == 1   \* pills created in a run of incomplete moves
MaxPayloadElapsed == 16  \* milliseconds a run of incomplete moves lasts

NoToken == 0            \* sessionToken null / undefined

\* the value undefined where a coordinate is expected: what data.x is when
\* the payload has no x.  The coordinates of the model are those of the play
\* field, none of which is negative.
Undefined == -1
IsNumber(v) == v # Undefined

---------------------------------------------------------------------------
(* Strings *)

IsSpace(ch) == ch \in {" ", "\t"}

RECURSIVE TrimStart(_)
TrimStart(str) ==
    IF str # <<>> /\ IsSpace(Head(str)) THEN TrimStart(Tail(str)) ELSE str

RECURSIVE TrimEnd(_)
TrimEnd(str) ==
    IF str # <<>> /\ IsSpace(str[Len(str)])
    THEN TrimEnd(SubSeq(str, 1, Len(str) - 1))
    ELSE str

\* String.prototype.trim
Trim(str) == TrimEnd(TrimStart(str))

\* String.prototype.substring(0, n)
Substring0(str, n) == SubSeq(str, 1, IF Len(str) < n THEN Len(str) ELSE n)

DigitChar == <<"0", "1", "2", "3", "4", "5", "6", "7", "8", "9">>

RECURSIVE Decimal(_)
Decimal(n) ==
    IF n < 10 THEN <<DigitChar[n + 1]>>
    ELSE Decimal(n \div 10) \o <<DigitChar[(n % 10) + 1]>>

\* `Player ${playerNumber}`
DefaultName(n) == <<"P", "l", "a", "y", "e", "r", " ">> \o Decimal(n)

---------------------------------------------------------------------------
(* Calendar *)

\* new Date(t).toDateString(), as a day number
DateString(t) == t \div DAY_MS

\* tomorrow.setDate(getDate() + 1); tomorrow.setHours(0, 0, 0, 0)
NextMidnight(t) == (t \div DAY_MS + 1) * DAY_MS

---------------------------------------------------------------------------
(* Sequences as ordered maps and arrays *)

Min2(a, b) == IF a < b THEN a ELSE b
Max2(a, b) == IF a > b THEN a ELSE b

RemoveAt(seq, i) == SubSeq(seq, 1, i - 1) \o SubSeq(seq, i + 1, Len(seq))

\* Array.prototype.findIndex(entry => entry.name === name), 0 for -1
FindIndex(seq, name) ==
    LET hits == {i \in 1..Len(seq) : seq[i].name = name}
    IN IF hits = {} THEN 0 ELSE CHOOSE i \in hits : \A j \in hits : i <= j

\* one step of a stable insertion: e goes after every entry whose score is
\* not lower than its own
InsertDesc(sorted, e) ==
    LET before == {i \in 1..Len(sorted) : sorted[i].score >= e.score}
        k == Cardinality(before)
    IN SubSeq(sorted, 1, k) \o <<e>> \o SubSeq(sorted, k + 1, Len(sorted))

RECURSIVE SortFrom(_, _)
SortFrom(sorted, rest) ==
    IF rest = <<>> THEN sorted
    ELSE SortFrom(InsertDesc(sorted, Head(rest)), Tail(rest))

\* a sort that leaves the array as it is
SortNothing(seq) == seq

\* Array.prototype.sort((a, b) => b.score - a.score): stable, descending
SortByScoreDesc(seq) == SortFrom(<<>>, seq)

\* Array.prototype.slice(0, n)
Slice0(seq, n) == SubSeq(seq, 1, Min2(n, Len(seq)))

\* Map.prototype.set on a map kept as a sequence of entries keyed by name:
\* an existing key keeps its place, a new key goes last
MapSet(seq, e) ==
    LET i == FindIndex(seq, e.name)
    IN IF i = 0 THEN Append(seq, e) ELSE [seq EXCEPT ![i] = e]

\* Map.prototype.set / delete on a map kept as a function
Put(f, k, v) == [x \in DOMAIN f \cup {k} |-> IF x = k THEN v ELSE f[x]]
Drop(f, k) == [x \in DOMAIN f \ {k} |-> f[x]]

---------------------------------------------------------------------------
(* The server state a handler reads and writes *)

State ==
    [now |-> now, players |-> players, nextPlayerId |-> nextPlayerId,
     pills |-> pills, pillSeq |-> pillSeq, playerScores |-> playerScores,
     sessionTokens |-> sessionTokens, tokenSeq |-> tokenSeq,
     dailyLeaderboard |-> dailyLeaderboard,
     allTimeLeaderboard |-> allTimeLeaderboard,
     initialPillsSpawned |-> initialPillsSpawned, rampActive |-> rampActive,
     allTimeIsArray |-> allTimeIsArray, respawns |-> respawns,
     threw |-> FALSE, out |-> <<>>]

\* io.emit / socket.emit / socket.broadcast.emit
Emit(s, m) == [s EXCEPT !.out = Append(@, m)]

\* the payload of the playerUpdate messages
PlayerInfo(p) ==
    [id |-> p.id, x |-> p.x, y |-> p.y, health |-> p.health,
     maxHealth |-> p.maxHealth, name |-> p.name]

---------------------------------------------------------------------------
(* Leaderboards *)

\* updateAllTimeLeaderboard replacing the entry of a name whatever its score
updateAllTimeLeaderboardOverwrite(s, playerName, score) ==
    LET newEntry == [name |-> playerName, score |-> score]
        board == s.allTimeLeaderboard
        existingIndex == FindIndex(board, playerName)
        placed == IF existingIndex # 0
                  THEN [board EXCEPT ![existingIndex] = newEntry]
                  ELSE Append(board, newEntry)
        kept == Slice0(SortByScoreDesc(placed), ALL_TIME_TOP)
    IN Emit([s EXCEPT !.allTimeLeaderboard = kept],
            [type |-> "allTimeLeaderboardUpdate", to |-> "all", topScores |-> kept])

\* updateAllTimeLeaderboard pushing an entry without looking for the name
updateAllTimeLeaderboardPush(s, playerName, score) ==
    LET newEntry == [name |-> playerName, score |-> score]
        kept == Slice0(SortByScoreDesc(Append(s.allTimeLeaderboard, newEntry)),
                       ALL_TIME_TOP)
    IN Emit([s EXCEPT !.allTimeLeaderboard = kept],
            [type |-> "allTimeLeaderboardUpdate", to |-> "all", topScores |-> kept])

\* allTimeLeaderboard.findIndex is not a function unless it is an array
updateAllTimeLeaderboard(s, playerName, score) ==
    LET newEntry == [name |-> playerName, score |-> score]
        board == s.allTimeLeaderboard
        existingIndex == FindIndex(board, playerName)
        placed ==
            IF existingIndex # 0
            THEN IF score > board[existingIndex].score
                 THEN [board EXCEPT ![existingIndex] = newEntry]
                 ELSE board
            ELSE Append(board, newEntry)
        kept == Slice0(SortByScoreDesc(placed), ALL_TIME_TOP)
    IN IF ~s.allTimeIsArray THEN [s EXCEPT !.threw = TRUE]
       ELSE Emit([s EXCEPT !.allTimeLeaderboard = kept],
                 [type |-> "allTimeLeaderboardUpdate", to |-> "all",
                  topScores |-> kept])

\* updateDailyLeaderboard keeping the entry of a name that has a better score
updateDailyLeaderboardKeepBest(s, playerId, playerName, score) ==
    LET entry == [name |-> playerName, score |-> score, timestamp |-> s.now]
        old == s.dailyLeaderboard.topScores
        i == FindIndex(old, playerName)
        topScores == IF i # 0 /\ old[i].score >= score THEN old
                     ELSE MapSet(old, entry)
        sortedScores == Slice0(SortByScoreDesc(topScores), DAILY_TOP)
    IN Emit([s EXCEPT !.dailyLeaderboard.topScores = topScores],
            [type |-> "dailyLeaderboardUpdate", to |-> "all",
             topScores |-> sortedScores,
             currentDay |-> s.dailyLeaderboard.currentDay])

updateDailyLeaderboard(s, playerId, playerName, score) ==
    LET entry == [name |-> playerName, score |-> score, timestamp |-> s.now]
        topScores == MapSet(s.dailyLeaderboard.topScores, entry)
        sortedScores == Slice0(SortByScoreDesc(topScores), DAILY_TOP)
    IN Emit([s EXCEPT !.dailyLeaderboard.topScores = topScores],
            [type |-> "dailyLeaderboardUpdate", to |-> "all",
             topScores |-> sortedScores,
             currentDay |-> s.dailyLeaderboard.currentDay])

updateTimeRemaining(s) ==
    [s EXCEPT !.dailyLeaderboard.timeRemaining =
                  Max2(0, s.dailyLeaderboard.resetTime - s.now)]

\* resetDailyLeaderboard leaving the reset target where it was
resetDailyLeaderboardSameTarget(s) ==
    LET d == [s.dailyLeaderboard EXCEPT
                  !.topScores = <<>>,
                  !.currentDay = DateString(s.now)]
    IN Emit([s EXCEPT !.dailyLeaderboard = d],
            [type |-> "dailyLeaderboardReset", to |-> "all",
             newDay |-> d.currentDay, timeRemaining |-> d.timeRemaining])

resetDailyLeaderboard(s) ==
    LET d == [s.dailyLeaderboard EXCEPT
                  !.topScores = <<>>,
                  !.currentDay = DateString(s.now),
                  !.resetTime = NextMidnight(s.now)]
    IN Emit([s EXCEPT !.dailyLeaderboard = d],
            [type |-> "dailyLeaderboardReset", to |-> "all",
             newDay |-> d.currentDay, timeRemaining |-> d.timeRemaining])

\* the callback of setInterval(..., 1000)
countdownTick(s) ==
    LET s1 == updateTimeRemaining(s)
        s2 == IF s1.dailyLeaderboard.timeRemaining <= 0
              THEN resetDailyLeaderboard(s1)
              ELSE s1
    IN Emit(s2, [type |-> "timeUpdate", to |-> "all",
                 timeRemaining |-> s2.dailyLeaderboard.timeRemaining])

---------------------------------------------------------------------------
(* Loaders *)

\* A file is what the loader finds on disk:
\*   "missing"      no file
\*   "notJson"      text that JSON.parse rejects
\*   "null"         the JSON document null
\*   "emptyObject"  the JSON document {}
\*   "emptyArray"   the JSON document []
\* and one well-formed document with an entry for each loader:
\*   "ledger"       {"B_<socket id of an earlier process>": {name: "B", score: 2}}
\*   "today"        {currentDay: <today>, topScores: {B: {name: "B", score: 2}}}
\*   "yesterday"    the same with the day before as currentDay
\*   "fullDay"      {currentDay: <today>, topScores: <ten entries, score 2>}
\*   "board"        [{name: "B", score: 2}]
LoadedEntry == [name |-> <<"B">>, score |-> 2]

\* the names of the entries of a daily leaderboard that is full
FullDayNames == <<"C", "D", "E", "F", "G", "H", "I", "J", "K", "L">>

\* loadPlayerScores: the value of playerScores after it.  JSON.parse throws
\* on "notJson" and Object.entries throws on null, both caught; {} and []
\* have no entries.  A key read from the file names a socket of an earlier
\* process: socket 0, which is none of this one's.
loadPlayerScores(file) ==
    IF file = "missing" THEN <<>>
    ELSE IF file \in {"notJson", "null"} THEN <<>>
    ELSE IF file \in {"emptyObject", "emptyArray"} THEN <<>>
    ELSE Put(<<>>, <<LoadedEntry.name, 0>>, LoadedEntry)

\* loadDailyLeaderboard at time t: the value of dailyLeaderboard after it.
\* JSON.parse throws on "notJson" and parsed.currentDay throws on null, both
\* caught with nothing assigned; the currentDay of {} and [] is undefined,
\* which is not today.
loadDailyLeaderboard(file, t) ==
    LET fresh == [currentDay |-> DateString(t), topScores |-> <<>>,
                  resetTime |-> 0, timeRemaining |-> 0]
    IN IF file = "missing" THEN fresh
       ELSE IF file \in {"notJson", "null"} THEN fresh
       ELSE IF file \in {"emptyObject", "emptyArray", "yesterday"} THEN fresh
       ELSE IF file = "fullDay"
       THEN [fresh EXCEPT
                !.topScores = [i \in 1..Len(FullDayNames) |->
                                  [name |-> <<FullDayNames[i]>>,
                                   score |-> LoadedEntry.score,
                                   timestamp |-> t - 1]],
                !.resetTime = NextMidnight(t - 1)]
       ELSE [fresh EXCEPT
                !.topScores = <<[name |-> LoadedEntry.name,
                                 score |-> LoadedEntry.score,
                                 timestamp |-> t - 1]>>,
                !.resetTime = NextMidnight(t - 1)]

\* initializeDailyReset at time t
initializeDailyReset(d, t) ==
    [d EXCEPT !.resetTime = NextMidnight(t),
              !.timeRemaining = Max2(0, NextMidnight(t) - t)]

\* loadAllTimeLeaderboard: <<whether allTimeLeaderboard holds an array, its
\* entries>> after it.  JSON.parse throws on "notJson" and reading the
\* length of null throws, both caught; the length of {} is undefined, which
\* throws nothing, so {} stays in allTimeLeaderboard.
loadAllTimeLeaderboard(file) ==
    IF file = "missing" THEN <<TRUE, <<>>>>
    ELSE IF file \in {"notJson", "null"} THEN <<TRUE, <<>>>>
    ELSE IF file = "emptyObject" THEN <<FALSE, <<>>>>
    ELSE IF file = "emptyArray" THEN <<TRUE, <<>>>>
    ELSE <<TRUE, <<LoadedEntry>>>>

---------------------------------------------------------------------------
(* Session tokens *)

\* cleanupExpiredTokens deleting a token already at the age of 24 hours
cleanupExpiredTokensEarly(s) ==
    LET expired == {t \in DOMAIN s.sessionTokens :
                        s.now - s.sessionTokens[t].created >= TWENTY_FOUR_HOURS}
    IN [s EXCEPT !.sessionTokens = [t \in DOMAIN @ \ expired |-> @[t]]]

cleanupExpiredTokens(s) ==
    LET expired == {t \in DOMAIN s.sessionTokens :
                        s.now - s.sessionTokens[t].created > TWENTY_FOUR_HOURS}
    IN [s EXCEPT !.sessionTokens = [t \in DOMAIN @ \ expired |-> @[t]]]

---------------------------------------------------------------------------
(* Pills *)

\* generatePill without the capacity check
generatePillAlways(s, spawn) ==
    LET pill == [id |-> s.pillSeq + 1, x |-> spawn[1], y |-> spawn[2],
                 points |-> 1]
    IN Emit([s EXCEPT !.pills = Append(@, pill), !.pillSeq = @ + 1],
            [type |-> "pillSpawned", to |-> "all", pill |-> pill])

generatePill(s, spawn) ==
    IF Len(s.pills) >= MAX_PILLS THEN s
    ELSE LET pill == [id |-> s.pillSeq + 1, x |-> spawn[1], y |-> spawn[2],
                      points |-> 1]
         IN Emit([s EXCEPT !.pills = Append(@, pill), !.pillSeq = @ + 1],
                 [type |-> "pillSpawned", to |-> "all", pill |-> pill])

\* Math.sqrt(dx * dx + dy * dy) <= PLAYER_RADIUS + PILL_SIZE / 2, in integers;
\* with a coordinate that is undefined the distance is NaN, and NaN <= r is
\* false
InReach(playerX, playerY, pill) ==
    LET dx == playerX - pill.x
        dy == playerY - pill.y
    IN /\ IsNumber(playerX)
       /\ IsNumber(playerY)
       /\ 4 * (dx * dx + dy * dy)
              <= (2 * PLAYER_RADIUS + PILL_SIZE) * (2 * PLAYER_RADIUS + PILL_SIZE)

\* collectPill crediting the pill twice
collectPillTwice(s, playerId, i) ==
    LET pill == s.pills[i]
        player == s.players[playerId]
        newScore == player.score + 2 * pill.points
        s1 == [s EXCEPT !.players[playerId].score = newScore,
                        !.pills = RemoveAt(@, i)]
    IN Emit(s1, [type |-> "pillCollected", to |-> "all",
                 pillId |-> pill.id, playerId |-> playerId,
                 points |-> pill.points, newScore |-> newScore])

\* collectPill leaving the pill in the pool
collectPillKeep(s, playerId, i) ==
    LET pill == s.pills[i]
        player == s.players[playerId]
        newScore == player.score + pill.points
        s1 == [s EXCEPT !.players[playerId].score = newScore,
                        !.playerScores = Put(@, <<player.name, playerId>>,
                                             [name |-> player.name,
                                              score |-> newScore])]
        s2 == Emit(s1, [type |-> "pillCollected", to |-> "all",
                        pillId |-> pill.id, playerId |-> playerId,
                        points |-> pill.points, newScore |-> newScore])
        s3 == updateDailyLeaderboard(s2, playerId, player.name, newScore)
    IN updateAllTimeLeaderboard(s3, player.name, newScore)

\* the body of the if inside the loop of checkPillCollection
collectPill(s, playerId, i) ==
    LET pill == s.pills[i]
        player == s.players[playerId]
        newScore == player.score + pill.points
        s1 == [s EXCEPT !.players[playerId].score = newScore,
                        !.pills = RemoveAt(@, i),
                        !.playerScores = Put(@, <<player.name, playerId>>,
                                             [name |-> player.name,
                                              score |-> newScore])]
        s2 == Emit(s1, [type |-> "pillCollected", to |-> "all",
                        pillId |-> pill.id, playerId |-> playerId,
                        points |-> pill.points, newScore |-> newScore])
        s3 == updateDailyLeaderboard(s2, playerId, player.name, newScore)
    IN updateAllTimeLeaderboard(s3, player.name, newScore)

\* checkPillCollection without the break: every pill in reach is collected
RECURSIVE collectFrom(_, _, _, _, _)
collectFrom(s, playerId, playerX, playerY, i) ==
    IF i > Len(s.pills) THEN s
    ELSE IF InReach(playerX, playerY, s.pills[i])
    THEN collectFrom(collectPill(s, playerId, i), playerId, playerX, playerY, i)
    ELSE collectFrom(s, playerId, playerX, playerY, i + 1)

checkPillCollectionNoBreak(s, playerId, playerX, playerY) ==
    IF playerId \notin DOMAIN s.players THEN s
    ELSE collectFrom(s, playerId, playerX, playerY, 1)

checkPillCollection(s, playerId, playerX, playerY) ==
    IF playerId \notin DOMAIN s.players THEN s
    ELSE LET hits == {i \in 1..Len(s.pills) : InReach(playerX, playerY, s.pills[i])}
         IN IF hits = {} THEN s
            ELSE collectPill(s, playerId, CHOOSE i \in hits : \A j \in hits : i <= j)

---------------------------------------------------------------------------
(* Socket handlers *)

\* io.on('connection'): the socket's id is the connection number
onConnection(s, spawn) ==
    LET id == s.nextPlayerId
        newPlayer == [id |-> id, x |-> spawn[1], y |-> spawn[2],
                      health |-> PLAYER_HEALTH, maxHealth |-> PLAYER_HEALTH,
                      name |-> DefaultName(id), score |-> 0,
                      lastMovementUpdate |-> 0]
        s1 == [s EXCEPT !.players = Put(@, id, newPlayer),
                        !.nextPlayerId = @ + 1]
        s2 == Emit(s1, [type |-> "gameState", to |-> "self", conn |-> id,
                        players |-> s1.players,
                        playerCount |-> Cardinality(DOMAIN s1.players),
                        pills |-> s1.pills,
                        dailyTopScores |->
                            Slice0(SortByScoreDesc(s1.dailyLeaderboard.topScores),
                                   DAILY_TOP),
                        timeRemaining |-> s1.dailyLeaderboard.timeRemaining,
                        currentDay |-> s1.dailyLeaderboard.currentDay,
                        allTimeTopScores |-> s1.allTimeLeaderboard])
        s3 == Emit(s2, [type |-> "playerUpdate", to |-> "all", conn |-> id,
                        player |-> PlayerInfo(newPlayer)])
    IN Emit(s3, [type |-> "playerCountUpdate", to |-> "all",
                 count |-> Cardinality(DOMAIN s1.players)])

\* restoreScore leaving the redeemed token in the store
restoreScoreKeepToken(tokens, cleanUsername, sessionToken) ==
    IF sessionToken # NoToken /\ sessionToken \in DOMAIN tokens
    THEN IF tokens[sessionToken].name = cleanUsername
         THEN <<tokens[sessionToken].score, tokens>>
         ELSE <<0, tokens>>
    ELSE <<0, tokens>>

\* restoreScore deleting a token presented under another name
restoreScoreDropMismatch(tokens, cleanUsername, sessionToken) ==
    IF sessionToken # NoToken /\ sessionToken \in DOMAIN tokens
    THEN IF tokens[sessionToken].name = cleanUsername
         THEN <<tokens[sessionToken].score, Drop(tokens, sessionToken)>>
         ELSE <<0, Drop(tokens, sessionToken)>>
    ELSE <<0, tokens>>

\* the token lookup of setUsername: <<restoredScore, sessionTokens>>
restoreScore(tokens, cleanUsername, sessionToken) ==
    IF sessionToken # NoToken /\ sessionToken \in DOMAIN tokens
    THEN IF tokens[sessionToken].name = cleanUsername
         THEN <<tokens[sessionToken].score, Drop(tokens, sessionToken)>>
         ELSE <<0, tokens>>
    ELSE <<0, tokens>>

\* onSetUsername cutting the name to 15 characters before trimming it
onSetUsernameCutFirst(s, id, username, sessionToken) ==
    IF id \in DOMAIN s.players /\ username # <<>> /\ Len(Trim(username)) > 0
    THEN LET cleanUsername == Trim(Substring0(username, MAX_NAME_LENGTH))
             restored == restoreScore(s.sessionTokens, cleanUsername, sessionToken)
             s1 == [s EXCEPT !.players[id].name = cleanUsername,
                             !.players[id].score = restored[1],
                             !.sessionTokens = restored[2],
                             !.playerScores = Put(@, <<cleanUsername, id>>,
                                                  [name |-> cleanUsername,
                                                   score |-> restored[1]])]
         IN Emit(s1, [type |-> "playerUpdate", to |-> "all", conn |-> id,
                      player |-> PlayerInfo(s1.players[id]),
                      score |-> s1.players[id].score])
    ELSE s

\* socket.on('setUsername'): username "" stands for a missing one as well
onSetUsername(s, id, username, sessionToken) ==
    IF id \in DOMAIN s.players /\ username # <<>> /\ Len(Trim(username)) > 0
    THEN LET cleanUsername == Substring0(Trim(username), MAX_NAME_LENGTH)
             restored == restoreScore(s.sessionTokens, cleanUsername, sessionToken)
             s1 == [s EXCEPT !.players[id].name = cleanUsername,
                             !.players[id].score = restored[1],
                             !.sessionTokens = restored[2],
                             !.playerScores = Put(@, <<cleanUsername, id>>,
                                                  [name |-> cleanUsername,
                                                   score |-> restored[1]])]
         IN Emit(s1, [type |-> "playerUpdate", to |-> "all", conn |-> id,
                      player |-> PlayerInfo(s1.players[id]),
                      score |-> s1.players[id].score])
    ELSE s

\* onMove without the stamp of the accepted move
onMoveNoStamp(s, id, x, y) ==
    IF id \in DOMAIN s.players /\ s.players[id].health > 0
    THEN LET timeSinceLastUpdate == s.now - s.players[id].lastMovementUpdate
         IN IF timeSinceLastUpdate >= MOVE_THROTTLE_MS
            THEN LET s1 == [s EXCEPT !.players[id].x = x,
                                     !.players[id].y = y]
                     s2 == checkPillCollection(s1, id, x, y)
                 IN IF s2.threw THEN s2
                    ELSE Emit(s2, [type |-> "playerUpdate", to |-> "others",
                                   conn |-> id,
                                   player |-> PlayerInfo(s2.players[id]),
                                   score |-> s2.players[id].score])
            ELSE s
    ELSE s

\* onMove relaying the player before the collection check
onMoveRelayFirst(s, id, x, y) ==
    IF id \in DOMAIN s.players /\ s.players[id].health > 0
    THEN LET timeSinceLastUpdate == s.now - s.players[id].lastMovementUpdate
         IN IF timeSinceLastUpdate >= MOVE_THROTTLE_MS
            THEN LET s1 == [s EXCEPT !.players[id].x = x,
                                     !.players[id].y = y,
                                     !.players[id].lastMovementUpdate = s.now]
                     s2 == Emit(s1, [type |-> "playerUpdate", to |-> "others",
                                     conn |-> id,
                                     player |-> PlayerInfo(s1.players[id]),
                                     score |-> s1.players[id].score])
                 IN checkPillCollection(s2, id, x, y)
            ELSE s
    ELSE s

\* socket.on('move')
onMove(s, id, x, y) ==
    IF id \in DOMAIN s.players /\ s.players[id].health > 0
    THEN LET timeSinceLastUpdate == s.now - s.players[id].lastMovementUpdate
         IN IF timeSinceLastUpdate >= MOVE_THROTTLE_MS
            THEN LET s1 == [s EXCEPT !.players[id].x = x,
                                     !.players[id].y = y,
                                     !.players[id].lastMovementUpdate = s.now]
                     s2 == checkPillCollection(s1, id, x, y)
                 IN IF s2.threw THEN s2
                    ELSE Emit(s2, [type |-> "playerUpdate", to |-> "others",
                                   conn |-> id,
                                   player |-> PlayerInfo(s2.players[id]),
                                   score |-> s2.players[id].score])
            ELSE s
    ELSE s

\* onDisconnect reporting and minting whatever the score
onDisconnectAnyScore(s, id) ==
    IF id \in DOMAIN s.players
    THEN LET player == s.players[id]
             sessionToken == s.tokenSeq + 1
             a == updateDailyLeaderboard(s, id, player.name, player.score)
             b == [a EXCEPT
                      !.sessionTokens =
                          Put(@, sessionToken,
                              [name |-> player.name, score |-> player.score,
                               created |-> s.now]),
                      !.tokenSeq = sessionToken]
             s1 == Emit(b, [type |-> "sessionToken", to |-> "self",
                            conn |-> id, token |-> sessionToken,
                            name |-> player.name, score |-> player.score])
             s2 == Emit(s1, [type |-> "playerLeft", to |-> "all", conn |-> id])
             s3 == [s2 EXCEPT !.players = Drop(@, id)]
         IN Emit(s3, [type |-> "playerCountUpdate", to |-> "all",
                      count |-> Cardinality(DOMAIN s3.players)])
    ELSE s

\* socket.on('disconnect')
onDisconnect(s, id) ==
    IF id \in DOMAIN s.players
    THEN LET player == s.players[id]
             s1 == IF player.name # <<>> /\ player.score > 0
                   THEN LET sessionToken == s.tokenSeq + 1
                            a == updateDailyLeaderboard(s, id, player.name,
                                                        player.score)
                            b == [a EXCEPT
                                     !.sessionTokens =
                                         Put(@, sessionToken,
                                             [name |-> player.name,
                                              score |-> player.score,
                                              created |-> s.now]),
                                     !.tokenSeq = sessionToken]
                        IN Emit(b, [type |-> "sessionToken", to |-> "self",
                                    conn |-> id, token |-> sessionToken,
                                    name |-> player.name,
                                    score |-> player.score])
                   ELSE s
             s2 == Emit(s1, [type |-> "playerLeft", to |-> "all", conn |-> id])
             s3 == [s2 EXCEPT !.players = Drop(@, id)]
         IN Emit(s3, [type |-> "playerCountUpdate", to |-> "all",
                      count |-> Cardinality(DOMAIN s3.players)])
    ELSE s

\* onRespawn asking for nothing while a respawn of the socket is pending
onRespawnOnce(s, id) ==
    IF id \in DOMAIN s.players
       /\ \A i \in 1..Len(s.respawns) : s.respawns[i].conn # id
    THEN [s EXCEPT !.respawns =
                       Append(@, [conn |-> id, due |-> s.now + RESPAWN_TIME])]
    ELSE s

\* socket.on('respawn'): the setTimeout of one more callback
onRespawn(s, id) ==
    IF id \in DOMAIN s.players
    THEN [s EXCEPT !.respawns =
                       Append(@, [conn |-> id, due |-> s.now + RESPAWN_TIME])]
    ELSE s

\* the callback of the i-th pending setTimeout of respawn
respawnFire(s, i, spawn) ==
    LET id == s.respawns[i].conn
        s1 == [s EXCEPT !.respawns = RemoveAt(@, i)]
    IN IF id \in DOMAIN s1.players
       THEN LET s2 == [s1 EXCEPT !.players[id].x = spawn[1],
                                 !.players[id].y = spawn[2],
                                 !.players[id].health = s1.players[id].maxHealth]
            IN Emit(s2, [type |-> "playerRespawned", to |-> "all",
                         player |-> s2.players[id]])
       ELSE s1

---------------------------------------------------------------------------
(* Spawn timers *)

\* the callback of initialSpawnInterval
rampTick(s, spawn) ==
    IF s.initialPillsSpawned < MAX_PILLS
    THEN [generatePill(s, spawn) EXCEPT !.initialPillsSpawned = @ + 1]
    ELSE [s EXCEPT !.rampActive = FALSE]

\* the steady-state callback stopping with the ramp
spawnTickWhileRamp(s, spawn) == IF s.rampActive THEN generatePill(s, spawn) ELSE s

\* the callback of setInterval(..., PILL_SPAWN_INTERVAL)
spawnTick(s, spawn) == generatePill(s, spawn)

---------------------------------------------------------------------------
(* Inputs *)

\* Date.now() when the process starts: noon of day 1
BootTime == DAY_MS + 12 * 60 * 60 * 1000

\* getRandomSpawnPoint() draws from the play field less a margin of 100
SpawnPoints == {<<100, 100>>, <<2000, 1000>>}

\* positions a client reports: within reach of the first spawn point without
\* being on it, and exactly on the second
MovePoints == {<<130, 100>>, <<2000, 1000>>}

\* one place where everything spawns and every move goes
OnePoint == {<<100, 100>>}

NameA == <<"A">>
NameB == <<"B">>

\* tokens a client may present: none, any token ever minted, one never minted
TokensPresented == 0..(tokenSeq + 1)

Ev(type, conn, username, token, x, y) ==
    [type |-> type, conn |-> conn, username |-> username, token |-> token,
     x |-> x, y |-> y]

---------------------------------------------------------------------------
(* Observers: what a test harness watching the server would record *)

\* how many messages of a type a handler sent
Count(seq, type) == Cardinality({i \in 1..Len(seq) : seq[i].type = type})

\* point values of the pills that left the pool
PointsRemoved(before, after) ==
    LET gone == {i \in 1..Len(before) :
                    \A j \in 1..Len(after) : after[j].id # before[i].id}
        RECURSIVE Sum(_)
        Sum(S) == IF S = {} THEN 0
                  ELSE LET i == CHOOSE k \in S : TRUE
                       IN before[i].points + Sum(S \ {i})
    IN Sum(gone)

\* whether a setUsername is one the server acts on, and what it resolves to
Accepted(id, username) == id \in DOMAIN players /\ Trim(username) # <<>>
Sanitized(username) == Substring0(Trim(username), MAX_NAME_LENGTH)
Redeems(username, token) ==
    /\ token \in DOMAIN sessionTokens
    /\ sessionTokens[token].name = Sanitized(username)

---------------------------------------------------------------------------
(* Actions *)

\* collected after the messages out[i..] of a handler: one more for the id
\* of every pillCollected among them
RECURSIVE Tally(_, _, _)
Tally(f, out, i) ==
    IF i > Len(out) THEN f
    ELSE IF out[i].type # "pillCollected" THEN Tally(f, out, i + 1)
    ELSE LET id == out[i].pillId
             n == IF id \in DOMAIN f THEN f[id] ELSE 0
         IN Tally(Put(f, id, n + 1), out, i + 1)

\* the handler runs in a live process; what it threw nobody catches
Apply(s) ==
    /\ ~crashed
    /\ crashed' = s.threw
    /\ allTimeIsArray' = s.allTimeIsArray
    /\ respawns' = s.respawns
    /\ players' = s.players
    /\ nextPlayerId' = s.nextPlayerId
    /\ pills' = s.pills
    /\ pillSeq' = s.pillSeq
    /\ playerScores' = s.playerScores
    /\ sessionTokens' = s.sessionTokens
    /\ tokenSeq' = s.tokenSeq
    /\ dailyLeaderboard' = s.dailyLeaderboard
    /\ allTimeLeaderboard' = s.allTimeLeaderboard
    /\ initialPillsSpawned' = s.initialPillsSpawned
    /\ rampActive' = s.rampActive
    /\ emitted' = s.out
    /\ collected' = Tally(collected, s.out, 1)
    /\ UNCHANGED now

Connect(spawn) ==
    /\ Apply(onConnection(State, spawn))
    /\ lastEvent' = Ev("connection", nextPlayerId, <<>>, NoToken, spawn[1], spawn[2])
    /\ acct' = Put(acct, nextPlayerId, [how |-> "connect", base |-> 0, gained |-> 0, sinceReset |-> 0])
    /\ lastAccept' = Put(lastAccept, nextPlayerId, -1)
    /\ UNCHANGED <<sweepDue, tickDue, rampDue, spawnDue, mintLog, resetCount,
                   bestReported, everFull>>

SetUsername(id, username, token) ==
    /\ id \in DOMAIN players
    /\ Apply(onSetUsername(State, id, username, token))
    /\ lastEvent' = Ev("setUsername", id, username, token, 0, 0)
    /\ acct' =
          IF ~Accepted(id, username) THEN acct
          ELSE [acct EXCEPT ![id] =
                   IF token = NoToken
                   THEN [how |-> "notoken", base |-> 0, gained |-> 0,
                         sinceReset |-> 0]
                   ELSE IF Redeems(username, token)
                   THEN [how |-> "restored",
                         base |-> sessionTokens[token].score, gained |-> 0,
                         sinceReset |-> acct[id].sinceReset]
                   ELSE [how |-> "failed", base |-> 0, gained |-> 0,
                         sinceReset |-> 0]]
    /\ mintLog' =
          IF Accepted(id, username) /\ Redeems(username, token)
             /\ token \in DOMAIN mintLog
          THEN [mintLog EXCEPT ![token].redeemed = TRUE]
          ELSE mintLog
    /\ UNCHANGED <<sweepDue, tickDue, rampDue, spawnDue, lastAccept, resetCount,
                   bestReported, everFull>>

Move(id, pt) ==
    /\ id \in DOMAIN players
    /\ LET s == onMove(State, id, pt[1], pt[2])
       IN /\ Apply(s)
          /\ acct' = [acct EXCEPT
                          ![id].gained = @ + PointsRemoved(pills, s.pills),
                          ![id].sinceReset = @ + PointsRemoved(pills, s.pills)]
          /\ lastAccept' = IF s.out # <<>> THEN [lastAccept EXCEPT ![id] = now]
                           ELSE lastAccept
          /\ bestReported' =
                IF Count(s.out, "pillCollected") = 0 THEN bestReported
                ELSE LET n == players[id].name
                         score == s.players[id].score
                     IN IF n \in DOMAIN bestReported
                        THEN [bestReported EXCEPT ![n] = Max2(@, score)]
                        ELSE Put(bestReported, n, score)
    /\ lastEvent' = Ev("move", id, <<>>, NoToken, pt[1], pt[2])
    /\ UNCHANGED <<sweepDue, tickDue, rampDue, spawnDue, mintLog, resetCount, everFull>>

Disconnect(id) ==
    /\ id \in DOMAIN players
    /\ LET s == onDisconnect(State, id)
           sent == {i \in 1..Len(s.out) : s.out[i].type = "sessionToken"}
       IN /\ Apply(s)
          /\ mintLog' =
                IF sent = {} THEN mintLog
                ELSE LET m == s.out[CHOOSE i \in sent : TRUE]
                     IN Put(mintLog, m.token,
                            [name |-> m.name, score |-> m.score, created |-> now,
                             scenario |-> (acct[id].how = "notoken"
                                           /\ acct[id].gained = 1),
                             redeemed |-> FALSE])
    /\ lastEvent' = Ev("disconnect", id, <<>>, NoToken, 0, 0)
    /\ acct' = Drop(acct, id)
    /\ lastAccept' = Drop(lastAccept, id)
    /\ UNCHANGED <<sweepDue, tickDue, rampDue, spawnDue, resetCount,
                   bestReported, everFull>>

RampTimer(spawn) ==
    /\ rampActive
    /\ Apply(rampTick(State, spawn))
    /\ everFull' = (everFull \/ Len(pills') = MAX_PILLS)
    /\ lastEvent' = Ev("rampTick", 0, <<>>, NoToken, spawn[1], spawn[2])
    /\ UNCHANGED <<sweepDue, tickDue, rampDue, spawnDue, acct, lastAccept, mintLog, resetCount,
                   bestReported>>

SpawnTimer(spawn) ==
    /\ Apply(spawnTick(State, spawn))
    /\ everFull' = (everFull \/ Len(pills') = MAX_PILLS)
    /\ lastEvent' = Ev("spawnTick", 0, <<>>, NoToken, spawn[1], spawn[2])
    /\ UNCHANGED <<sweepDue, tickDue, rampDue, spawnDue, acct, lastAccept, mintLog, resetCount,
                   bestReported>>

Respawn(id) ==
    /\ id \in DOMAIN players
    /\ Apply(onRespawn(State, id))
    /\ lastEvent' = Ev("respawn", id, <<>>, NoToken, 0, 0)
    /\ UNCHANGED <<sweepDue, tickDue, rampDue, spawnDue, acct, lastAccept,
                   mintLog, resetCount, bestReported, everFull>>

\* the oldest pending setTimeout of respawn firing, when due or later: the
\* callbacks share one delay, so they fire in the order they were set
RespawnTimer(spawn) ==
    /\ respawns # <<>>
    /\ now >= respawns[1].due
    /\ Apply(respawnFire(State, 1, spawn))
    /\ lastEvent' = Ev("respawnFire", respawns[1].conn, <<>>, NoToken,
                       spawn[1], spawn[2])
    /\ UNCHANGED <<sweepDue, tickDue, rampDue, spawnDue, acct, lastAccept,
                   mintLog, resetCount, bestReported, everFull>>

\* initialSpawnInterval firing when it is due; like every interval it is
\* due again one interval after it fired
RampTimerDue(spawn) ==
    /\ rampActive
    /\ now >= rampDue
    /\ Apply(rampTick(State, spawn))
    /\ rampDue' = now + RAMP_INTERVAL
    /\ everFull' = (everFull \/ Len(pills') = MAX_PILLS)
    /\ lastEvent' = Ev("rampTick", 0, <<>>, NoToken, spawn[1], spawn[2])
    /\ UNCHANGED <<sweepDue, tickDue, spawnDue, acct, lastAccept, mintLog,
                   resetCount, bestReported>>

\* the steady-state spawn timer firing when it is due
SpawnTimerDue(spawn) ==
    /\ now >= spawnDue
    /\ Apply(spawnTick(State, spawn))
    /\ spawnDue' = now + PILL_SPAWN_INTERVAL
    /\ everFull' = (everFull \/ Len(pills') = MAX_PILLS)
    /\ lastEvent' = Ev("spawnTick", 0, <<>>, NoToken, spawn[1], spawn[2])
    /\ UNCHANGED <<sweepDue, tickDue, rampDue, acct, lastAccept, mintLog,
                   resetCount, bestReported>>

\* the hourly setInterval: fires when due
SweepTimer ==
    /\ now >= sweepDue
    /\ Apply(cleanupExpiredTokens(State))
    /\ sweepDue' = sweepDue + SWEEP_INTERVAL
    /\ lastEvent' = Ev("sweep", 0, <<>>, NoToken, 0, 0)
    /\ UNCHANGED <<tickDue, rampDue, spawnDue, acct, lastAccept, mintLog, resetCount,
                   bestReported, everFull>>

\* the one-second setInterval: fires when due or later, and is due again
\* one interval after it fired
CountdownTimer ==
    /\ now >= tickDue
    /\ LET s == countdownTick(State)
       IN /\ Apply(s)
          /\ resetCount' = resetCount + Count(s.out, "dailyLeaderboardReset")
    /\ tickDue' = now + TICK_INTERVAL
    /\ lastEvent' = Ev("tick", 0, <<>>, NoToken, 0, 0)
    /\ UNCHANGED <<sweepDue, rampDue, spawnDue, acct, lastAccept, mintLog,
                   bestReported, everFull>>

\* d milliseconds pass; no event is handled
Advance(d, deadline) ==
    /\ ~crashed
    /\ now + d <= deadline
    /\ now' = now + d
    /\ emitted' = <<>>
    /\ lastEvent' = Ev("advance", 0, <<>>, NoToken, 0, 0)
    /\ UNCHANGED <<players, nextPlayerId, pills, pillSeq, playerScores,
                   sessionTokens, tokenSeq, dailyLeaderboard,
                   allTimeLeaderboard, initialPillsSpawned, rampActive,
                   allTimeIsArray, respawns, crashed,
                   sweepDue, tickDue, rampDue, spawnDue, acct, lastAccept, mintLog, resetCount,
                   bestReported, everFull, collected>>

\* the hourly sweeps that fall due before time t, each run at its due time
RECURSIVE sweepsBefore(_, _, _)
sweepsBefore(s, due, t) ==
    IF due < t
    THEN sweepsBefore([cleanupExpiredTokens([s EXCEPT !.now = due])
                          EXCEPT !.now = s.now],
                      due + SWEEP_INTERVAL, t)
    ELSE <<s, due>>

\* a quiet period until time t: nothing happens but the hourly sweeps that
\* fall due inside it; a sweep due at its very end is left to SweepTimer,
\* and a sweep that is due now fires before time moves on
Elapse(t) ==
    /\ ~crashed
    /\ now < t
    /\ now < sweepDue
    /\ LET r == sweepsBefore(State, sweepDue, t)
       IN /\ sessionTokens' = r[1].sessionTokens
          /\ sweepDue' = r[2]
    /\ now' = t
    /\ emitted' = <<>>
    /\ lastEvent' = Ev("elapse", 0, <<>>, NoToken, 0, 0)
    /\ UNCHANGED <<players, nextPlayerId, pills, pillSeq, playerScores,
                   tokenSeq, dailyLeaderboard, allTimeLeaderboard,
                   initialPillsSpawned, rampActive, allTimeIsArray, respawns,
                   crashed, tickDue, rampDue, spawnDue, acct, lastAccept, mintLog, resetCount,
                   bestReported, everFull, collected>>

---------------------------------------------------------------------------
(* The game: connections, names, moves and spawns over a few milliseconds *)

\* the state once server.js has run to its end at time t with the files f
\* on disk: the loaders, then initializeDailyReset
InitFrom(t, f) ==
    /\ now = t
    /\ players = <<>>
    /\ nextPlayerId = 1
    /\ pills = <<>>
    /\ pillSeq = 0
    /\ playerScores = loadPlayerScores(f.ledger)
    /\ sessionTokens = <<>>
    /\ tokenSeq = 0
    /\ dailyLeaderboard = initializeDailyReset(loadDailyLeaderboard(f.daily, t), t)
    /\ allTimeIsArray = loadAllTimeLeaderboard(f.allTime)[1]
    /\ allTimeLeaderboard = loadAllTimeLeaderboard(f.allTime)[2]
    /\ initialPillsSpawned = 0
    /\ rampActive = TRUE
    /\ respawns = <<>>
    /\ crashed = FALSE
    /\ sweepDue = t + SWEEP_INTERVAL
    /\ tickDue = t + TICK_INTERVAL
    /\ rampDue = t + RAMP_INTERVAL
    /\ spawnDue = t + PILL_SPAWN_INTERVAL
    /\ emitted = <<>>
    /\ lastEvent = [type |-> "boot", conn |-> 0, username |-> <<>>,
                    token |-> NoToken, x |-> 0, y |-> 0, files |-> f]
    /\ acct = <<>>
    /\ lastAccept = <<>>
    /\ mintLog = <<>>
    /\ resetCount = 0
    /\ bestReported = <<>>
    /\ everFull = FALSE
    /\ collected = <<>>

\* a cold start: no file on disk
NoFiles == [ledger |-> "missing", daily |-> "missing", allTime |-> "missing"]

InitAt(t) == InitFrom(t, NoFiles)

Init == InitAt(BootTime)

Next ==
    \/ \E spawn \in OnePoint : nextPlayerId <= MaxConnections /\ Connect(spawn)
    \/ \E id \in DOMAIN players, username \in {NameA},
          token \in TokensPresented :
          SetUsername(id, username, token)
    \/ \E id \in DOMAIN players, pt \in MovePoints : Move(id, pt)
    \/ \E id \in DOMAIN players : Disconnect(id)
    \/ \E spawn \in SpawnPoints : pillSeq < MaxSpawns /\ SpawnTimer(spawn)
    \/ Advance(MOVE_THROTTLE_MS, BootTime + MaxElapsed)

Spec == Init /\ [][Next]_vars

---------------------------------------------------------------------------
(* Score accounting *)

\* C3 as stated: a player's score is the sum of the point values of the
\* pills it collected since its connection was created or since its last
\* setUsername whose restoration did not succeed.
C3_ScoreIsSumSinceReset ==
    \A id \in DOMAIN players : players[id].score = acct[id].sinceReset

\* C3, amended: a player's score is the score given by its last score
\* assignment (0 by the connection and by a setUsername that restores
\* nothing, the token's score by a setUsername that redeems a token) plus
\* the point values of the pills it collected since that assignment.
C3_ScoreIsBasePlusCollected ==
    \A id \in DOMAIN players :
        players[id].score = acct[id].base + acct[id].gained

\* a player redeemed a token and has collected a pill since
C3_Witness ==
    \E id \in DOMAIN players :
        /\ acct[id].how = "restored"
        /\ acct[id].base > 0
        /\ acct[id].gained > 0

---------------------------------------------------------------------------
(* One collection per move *)

InReachOf(x, y, pool) == {i \in 1..Len(pool) : InReach(x, y, pool[i])}

\* C8: an accepted move made where several pills are in reach removes
\* exactly one of them, adds exactly its point value to the mover's score
\* and emits exactly one pillCollected; the other pills stay in the pool.
C8_OneCollectionPerMove ==
    [][(/\ lastEvent'.type = "move"
        /\ emitted' # <<>>
        /\ Cardinality(InReachOf(lastEvent'.x, lastEvent'.y, pills)) >= 2)
       => (\E i \in InReachOf(lastEvent'.x, lastEvent'.y, pills) :
              /\ pills' = RemoveAt(pills, i)
              /\ players'[lastEvent'.conn].score =
                     players[lastEvent'.conn].score + pills[i].points
              /\ Count(emitted', "pillCollected") = 1)]_vars

\* a move has just collected a pill and another pill in reach of the same
\* position is still in the pool
C8_Witness ==
    /\ lastEvent.type = "move"
    /\ Count(emitted, "pillCollected") = 1
    /\ InReachOf(lastEvent.x, lastEvent.y, pills) # {}

---------------------------------------------------------------------------
(* Sessions: disconnecting and coming back over a day and an hour *)

HALF_HOUR == 30 * 60 * 1000

\* the instants at which something happens in a session: at the start, a
\* day later, half an hour after that, and at the next sweep
SessionInstants ==
    {BootTime + TWENTY_FOUR_HOURS,
     BootTime + TWENTY_FOUR_HOURS + HALF_HOUR,
     BootTime + TWENTY_FOUR_HOURS + SWEEP_INTERVAL}

NextSession ==
    \/ \E spawn \in OnePoint :
          nextPlayerId <= MaxSessionConnections /\ Connect(spawn)
    \/ \E id \in DOMAIN players, token \in TokensPresented :
          SetUsername(id, NameA, token)
    \/ \E id \in DOMAIN players, pt \in OnePoint : Move(id, pt)
    \/ \E id \in DOMAIN players : Disconnect(id)
    \/ \E spawn \in OnePoint : pillSeq < MaxSessionSpawns /\ SpawnTimer(spawn)
    \/ SweepTimer
    \/ \E t \in SessionInstants : Elapse(t)

SpecSession == Init /\ [][NextSession]_vars

---------------------------------------------------------------------------
(* Redemptions: tokens minted and presented under two names, at one instant *)

NextToken ==
    \/ \E spawn \in OnePoint :
          nextPlayerId <= MaxTokenConnections /\ Connect(spawn)
    \/ \E id \in DOMAIN players, username \in {NameA, NameB},
          token \in TokensPresented :
          SetUsername(id, username, token)
    \/ \E id \in DOMAIN players, pt \in OnePoint : Move(id, pt)
    \/ \E id \in DOMAIN players : Disconnect(id)
    \/ \E spawn \in OnePoint : pillSeq < MaxTokenSpawns /\ SpawnTimer(spawn)

SpecToken == Init /\ [][NextToken]_vars

---------------------------------------------------------------------------
(* Session tokens *)

\* the setUsername the step handles is one the server acts on
ActsOnSetUsername ==
    /\ lastEvent'.type = "setUsername"
    /\ Accepted(lastEvent'.conn, lastEvent'.username)

\* C1: a setUsername presenting a stored token bound to the sanitized name
\* sets the score to the token's score and removes the token; a setUsername
\* presenting a token that was redeemed before finds no token and sets the
\* score to 0, whoever presents it and under whatever name.
C1_TokenSingleUse ==
    [][ActsOnSetUsername =>
           LET id == lastEvent'.conn
               t == lastEvent'.token
           IN /\ Redeems(lastEvent'.username, t) =>
                    /\ players'[id].score = sessionTokens[t].score
                    /\ t \notin DOMAIN sessionTokens'
              /\ (t \in DOMAIN mintLog /\ mintLog[t].redeemed) =>
                    /\ t \notin DOMAIN sessionTokens
                    /\ players'[id].score = 0
                    /\ sessionTokens' = sessionTokens]_vars

\* a token that was redeemed has just been presented again and gave score 0
C1_Witness ==
    /\ lastEvent.type = "setUsername"
    /\ lastEvent.token \in DOMAIN mintLog
    /\ mintLog[lastEvent.token].redeemed
    /\ lastEvent.conn \in DOMAIN players
    /\ acct[lastEvent.conn].how = "failed"
    /\ players[lastEvent.conn].score = 0

\* C2: a setUsername presenting a token older than 24 hours yields score 0,
\* also when no sweep has run since the token passed 24 hours.
C2_ExpiredTokenNeverRedeemed ==
    [][(/\ ActsOnSetUsername
        /\ lastEvent'.token \in DOMAIN mintLog
        /\ now - mintLog[lastEvent'.token].created > TWENTY_FOUR_HOURS)
       => players'[lastEvent'.conn].score = 0]_vars

---------------------------------------------------------------------------
(* A score surviving a reconnect *)

Messages(out, type) == {out[i] : i \in {k \in 1..Len(out) : out[k].type = type}}

HasEntry(topScores, name, score) ==
    \E j \in 1..Len(topScores) :
        topScores[j].name = name /\ topScores[j].score = score

\* the player named itself without a token and has collected nothing since
FreshlyNamed(id) == acct[id].how = "notoken" /\ acct[id].gained = 0

\* the player named itself without a token and has collected one pill since
NamedWithOnePill(id) == acct[id].how = "notoken" /\ acct[id].gained = 1

\* C10, the collection: an accepted move of a freshly named player onto the
\* exact coordinates of a pill broadcasts pillCollected with newScore 1 and a
\* daily leaderboard holding the player's name with score 1 (the broadcast
\* is the top DAILY_TOP of the board, so it holds the entry whenever the
\* board has no more names than that).
C10_Collects ==
    LET id == lastEvent'.conn
    IN (/\ lastEvent'.type = "move"
        /\ emitted' # <<>>
        /\ FreshlyNamed(id)
        /\ \E i \in 1..Len(pills) :
              pills[i].x = lastEvent'.x /\ pills[i].y = lastEvent'.y)
       => /\ \E m \in Messages(emitted', "pillCollected") :
                m.playerId = id /\ m.newScore = 1
          /\ Len(dailyLeaderboard'.topScores) <= DAILY_TOP =>
                \E m \in Messages(emitted', "dailyLeaderboardUpdate") :
                    HasEntry(m.topScores, players[id].name, 1)

\* C10, the disconnect: a token bound to (n, 1) is stored and sent
C10_Mints ==
    LET id == lastEvent'.conn
    IN (/\ lastEvent'.type = "disconnect"
        /\ id \in DOMAIN players
        /\ NamedWithOnePill(id))
       => \E m \in Messages(emitted', "sessionToken") :
             /\ m.conn = id /\ m.to = "self"
             /\ m.name = players[id].name /\ m.score = 1
             /\ m.token \notin DOMAIN sessionTokens
             /\ m.token \in DOMAIN sessionTokens'
             /\ sessionTokens'[m.token] =
                    [name |-> players[id].name, score |-> 1, created |-> now]

\* C10, the reconnect: presenting that token with the same name within 24
\* hours, on whatever connection, gives score 1
C10_Restores ==
    LET id == lastEvent'.conn
        t == lastEvent'.token
    IN (/\ ActsOnSetUsername
        /\ t \in DOMAIN mintLog
        /\ mintLog[t].scenario
        /\ ~mintLog[t].redeemed
        /\ mintLog[t].name = Sanitized(lastEvent'.username)
        /\ now - mintLog[t].created <= TWENTY_FOUR_HOURS)
       => players'[id].score = 1

\* C10: connect, setUsername(n) without a token, an accepted move onto a
\* pill (newScore 1), disconnect (a token bound to (n, 1)), reconnect and
\* setUsername(n, token) within 24 hours: the score is 1 again.
C10_ScoreSurvivesReconnect ==
    [][C10_Collects /\ C10_Mints /\ C10_Restores]_vars

\* the token of such a session has just been redeemed on a later connection,
\* exactly 24 hours after it was minted and after the sweep of that hour
C10_Witness ==
    /\ lastEvent.type = "setUsername"
    /\ lastEvent.token \in DOMAIN mintLog
    /\ mintLog[lastEvent.token].scenario
    /\ mintLog[lastEvent.token].redeemed
    /\ now - mintLog[lastEvent.token].created = TWENTY_FOUR_HOURS
    /\ sweepDue > now
    /\ lastEvent.conn \in DOMAIN players
    /\ acct[lastEvent.conn].how = "restored"
    /\ players[lastEvent.conn].score = 1

---------------------------------------------------------------------------
(* Score reports: players under four names collecting at one place *)

NextBoard ==
    \/ \E spawn \in OnePoint :
          nextPlayerId <= MaxBoardConnections /\ Connect(spawn)
    \/ \E id \in DOMAIN players, username \in {NameA, NameB} :
          SetUsername(id, username, NoToken)
    \/ \E id \in DOMAIN players, pt \in OnePoint : Move(id, pt)
    \/ \E spawn \in OnePoint : pillSeq < MaxBoardSpawns /\ SpawnTimer(spawn)
    \/ Advance(MOVE_THROTTLE_MS, BootTime + MaxBoardElapsed)

SpecBoard == Init /\ [][NextBoard]_vars

---------------------------------------------------------------------------
(* The all-time leaderboard *)

\* C4: the all-time leaderboard has at most 3 entries and at most one entry
\* per player name.
C4_AtMostThreeOnePerName ==
    /\ Len(allTimeLeaderboard) <= 3
    /\ \A i, j \in 1..Len(allTimeLeaderboard) :
          allTimeLeaderboard[i].name = allTimeLeaderboard[j].name => i = j

\* the board is full and the player that has just collected a pill, under a
\* fourth name, is not on it
C4_Witness ==
    /\ lastEvent.type = "move"
    /\ Count(emitted, "pillCollected") = 1
    /\ Len(allTimeLeaderboard) = 3
    /\ FindIndex(allTimeLeaderboard, players[lastEvent.conn].name) = 0

\* C5 as stated: of two adjacent entries of the all-time leaderboard the
\* earlier has a strictly greater score.
C5_StrictlySortedDescending ==
    \A i \in 1..(Len(allTimeLeaderboard) - 1) :
        allTimeLeaderboard[i].score > allTimeLeaderboard[i + 1].score

\* C5, amended: of two adjacent entries of the all-time leaderboard the
\* earlier has a score greater than or equal to the later one's.
C5_SortedDescending ==
    \A i \in 1..(Len(allTimeLeaderboard) - 1) :
        allTimeLeaderboard[i].score >= allTimeLeaderboard[i + 1].score

\* a full board with a tie below a greater score, reached by an entry that
\* was raised past its neighbours
C5_Witness ==
    /\ Len(allTimeLeaderboard) = 3
    /\ allTimeLeaderboard[1].score > allTimeLeaderboard[2].score
    /\ allTimeLeaderboard[2].score = allTimeLeaderboard[3].score
    /\ lastEvent.type = "move"
    /\ players[lastEvent.conn].name = allTimeLeaderboard[1].name
    /\ Count(emitted, "pillCollected") = 1

---------------------------------------------------------------------------
(* The pool: both spawn timers and a collecting player, at one place *)

NextPool ==
    \/ \E spawn \in OnePoint : nextPlayerId <= MaxPoolConnections /\ Connect(spawn)
    \/ \E id \in DOMAIN players, pt \in OnePoint : Move(id, pt)
    \/ \E spawn \in OnePoint : pillSeq < MaxPoolSpawns /\ RampTimer(spawn)
    \/ \E spawn \in OnePoint : pillSeq < MaxPoolSpawns /\ SpawnTimer(spawn)
    \/ Advance(MOVE_THROTTLE_MS, BootTime + MaxPoolElapsed)

SpecPool == Init /\ [][NextPool]_vars

---------------------------------------------------------------------------
(* The capacity of the pool *)

\* C6: the pool never holds more than 30 pills, and a spawn attempt of
\* either timer made while it holds 30 changes nothing and sends nothing.
C6_PoolCapacity ==
    [][/\ Len(pills') <= 30
       /\ (lastEvent'.type \in {"rampTick", "spawnTick"} /\ Len(pills) = 30)
          => /\ emitted' = <<>>
             /\ UNCHANGED <<players, pills, pillSeq, playerScores,
                            sessionTokens, tokenSeq, dailyLeaderboard,
                            allTimeLeaderboard>>]_vars

\* the pool was filled, a pill was collected, the steady-state timer filled
\* the pool again and has just made an attempt at capacity
C6_Witness ==
    /\ lastEvent.type = "spawnTick"
    /\ Len(pills) = 30
    /\ emitted = <<>>
    /\ pillSeq > 30
    /\ \E id \in DOMAIN players : players[id].score > 0

---------------------------------------------------------------------------
(* Moves: two connections moving 15 and 16 milliseconds apart *)

\* time passing between two moves, in milliseconds
MoveSteps == {15, 16}

NextMove ==
    \/ \E spawn \in OnePoint : nextPlayerId <= MaxMoveConnections /\ Connect(spawn)
    \/ \E id \in DOMAIN players, pt \in MovePoints : Move(id, pt)
    \/ \E spawn \in OnePoint : pillSeq < MaxMoveSpawns /\ SpawnTimer(spawn)
    \/ \E d \in MoveSteps : Advance(d, BootTime + MaxMoveElapsed)

SpecMove == Init /\ [][NextMove]_vars

---------------------------------------------------------------------------
(* The rate limit of moves *)

\* what a handler can change of the server
server == <<players, nextPlayerId, pills, pillSeq, playerScores,
            sessionTokens, tokenSeq, dailyLeaderboard, allTimeLeaderboard,
            initialPillsSpawned, rampActive, allTimeIsArray, respawns>>

\* the connection has had a move relayed, less than 16 ms ago
TooSoon(id) == lastAccept[id] >= 0 /\ now - lastAccept[id] < 16

\* C7: two accepted moves of one connection are at least 16 ms apart; a move
\* arriving less than 16 ms after the connection's last accepted move
\* changes nothing, collects nothing and sends nothing; and whether a move is
\* accepted depends on the connection's own last accepted move alone.
C7_RateLimitPerConnection ==
    [][lastEvent'.type = "move" =>
          LET id == lastEvent'.conn
          IN /\ emitted' # <<>> => ~TooSoon(id)
             /\ TooSoon(id) => emitted' = <<>> /\ UNCHANGED server
             /\ ~TooSoon(id) =>
                   /\ Count(emitted', "playerUpdate") = 1
                   /\ players'[id].x = lastEvent'.x
                   /\ players'[id].y = lastEvent'.y]_vars

\* a move onto a pill, 15 ms after the connection's last accepted move, has
\* just been dropped while the other connection had a move accepted at this
\* very instant
C7_Witness ==
    /\ lastEvent.type = "move"
    /\ emitted = <<>>
    /\ lastAccept[lastEvent.conn] = now - 15
    /\ InReachOf(lastEvent.x, lastEvent.y, pills) # {}
    /\ \E other \in DOMAIN players \ {lastEvent.conn} : lastAccept[other] = now

---------------------------------------------------------------------------
(* Midnight: the countdown ticking across the end of day 1 *)

Midnight == NextMidnight(BootTime)

\* the process starts two or two and a half seconds before midnight
DailyBootTimes == {Midnight - 2000, Midnight - 2500}

DailyEnd == Midnight + 2000

\* time passing between two events around midnight
DailyStep == TICK_INTERVAL \div 2

InitDaily == \E t \in DailyBootTimes : InitAt(t)

NextDaily ==
    \/ \E spawn \in OnePoint : nextPlayerId <= MaxDailyConnections /\ Connect(spawn)
    \/ \E id \in DOMAIN players, pt \in OnePoint : Move(id, pt)
    \/ \E spawn \in OnePoint : pillSeq < MaxDailySpawns /\ SpawnTimer(spawn)
    \/ CountdownTimer
    \/ Advance(DailyStep, Min2(tickDue + MaxTickLate, DailyEnd))

SpecDaily == InitDaily /\ [][NextDaily]_vars

\* C9: the daily leaderboard is reset exactly once per calendar day, by the
\* first one-second tick at or after midnight: as of every tick the number of
\* resets is the number of midnights passed, and right after a reset the
\* entry map is empty, currentDay is the new date and the reset target is the
\* following midnight.
C9_ResetOncePerDay ==
    [][lastEvent'.type = "tick" =>
          /\ resetCount' = DateString(now) - DateString(BootTime)
          /\ resetCount' # resetCount =>
                /\ resetCount' = resetCount + 1
                /\ dailyLeaderboard'.topScores = <<>>
                /\ dailyLeaderboard'.currentDay = DateString(now)
                /\ dailyLeaderboard'.resetTime = NextMidnight(now)]_vars

\* the tick after the one that reset the board has fired without resetting
\* it again, and the board holds an entry reported since midnight
C9_Witness ==
    /\ lastEvent.type = "tick"
    /\ resetCount = 1
    /\ Count(emitted, "dailyLeaderboardReset") = 0
    /\ dailyLeaderboard.topScores # <<>>
    /\ Len(allTimeLeaderboard) = 1
    /\ allTimeLeaderboard[1].score = 2

---------------------------------------------------------------------------
(* Replenishment: both spawn timers running for ever, a player collecting *)

NextLive ==
    \/ \E spawn \in OnePoint : nextPlayerId <= MaxLiveConnections /\ Connect(spawn)
    \/ \E id \in DOMAIN players, pt \in OnePoint : Move(id, pt)
    \/ \E spawn \in OnePoint : RampTimer(spawn)
    \/ \E spawn \in OnePoint : SpawnTimer(spawn)
    \/ Advance(MOVE_THROTTLE_MS, BootTime + MaxLiveElapsed)

\* the steady-state setInterval is never cleared: it goes on firing
SteadyTimerFires == \E spawn \in OnePoint : SpawnTimer(spawn)

SpecLive == Init /\ [][NextLive]_vars /\ WF_vars(SteadyTimerFires)

\* a spawn timer has just added a pill
PillAdded ==
    /\ lastEvent.type \in {"spawnTick", "rampTick"}
    /\ Count(emitted, "pillSpawned") = 1

\* C11: whenever the pool holds fewer than 30 pills a pill is eventually
\* added; a firing of the steady-state timer that finds fewer than 30 pills
\* adds exactly one; and the steady-state timer can always fire again.
C11_PoolReplenished ==
    /\ (Len(pills) < MAX_PILLS) ~> PillAdded
    /\ [][(lastEvent'.type = "spawnTick" /\ Len(pills) < MAX_PILLS)
          => /\ Len(pills') = Len(pills) + 1
             /\ Count(emitted', "pillSpawned") = 1]_vars
    /\ [](ENABLED SteadyTimerFires)

\* the ramp is over, the pool was full, a player collected a pill and the
\* steady-state timer has just added one in its place
C11_Witness ==
    /\ lastEvent.type = "spawnTick"
    /\ Count(emitted, "pillSpawned") = 1
    /\ ~rampActive
    /\ Len(pills) = MAX_PILLS
    /\ \E id \in DOMAIN players : players[id].score > 0

---------------------------------------------------------------------------
(* A restoration that fails *)

\* the server part of a handler's result, in the order of server
ServerOf(s) ==
    <<s.players, s.nextPlayerId, s.pills, s.pillSeq, s.playerScores,
      s.sessionTokens, s.tokenSeq, s.dailyLeaderboard, s.allTimeLeaderboard,
      s.initialPillsSpawned, s.rampActive, s.allTimeIsArray, s.respawns>>

\* C12: a setUsername(n, t) whose token t is not in the token store, or is
\* bound to a name other than the sanitized n, leaves the server in the state
\* and sends the messages that setUsername(n) without a token would have:
\* the score is 0 and the token store is as it was.
C12_FailedRestoreUnobservable ==
    [][(/\ ActsOnSetUsername
        /\ lastEvent'.token # NoToken
        /\ ~Redeems(lastEvent'.username, lastEvent'.token))
       => LET id == lastEvent'.conn
              s == onSetUsername(State, id, lastEvent'.username, NoToken)
          IN /\ server' = ServerOf(s)
             /\ emitted' = s.out
             /\ players'[id].score = 0
             /\ sessionTokens' = sessionTokens]_vars

\* a stored token bound to one name has just been presented under another
\* name: the presenter's score is 0 and the token is still in the store
C12_Witness ==
    /\ lastEvent.type = "setUsername"
    /\ lastEvent.token \in DOMAIN sessionTokens
    /\ sessionTokens[lastEvent.token].name # Sanitized(lastEvent.username)
    /\ lastEvent.conn \in DOMAIN players
    /\ acct[lastEvent.conn].how = "failed"
    /\ acct[lastEvent.conn].sinceReset = 0
    /\ players[lastEvent.conn].score = 0

---------------------------------------------------------------------------
(* Startup: the three files as found on disk, then a player collecting *)

LedgerFiles == {"missing", "notJson", "null", "emptyObject", "emptyArray", "ledger"}

DailyFiles ==
    {"missing", "notJson", "null", "emptyObject", "emptyArray", "today", "yesterday"}

AllTimeFiles == {"missing", "notJson", "null", "emptyObject", "emptyArray", "board"}

InitLoad ==
    \E l \in LedgerFiles, d \in DailyFiles, a \in AllTimeFiles :
        InitFrom(BootTime, [ledger |-> l, daily |-> d, allTime |-> a])

NextLoad ==
    \/ \E spawn \in OnePoint : nextPlayerId <= MaxLoadConnections /\ Connect(spawn)
    \/ \E id \in DOMAIN players : SetUsername(id, NameA, NoToken)
    \/ \E id \in DOMAIN players, pt \in OnePoint : Move(id, pt)
    \/ \E id \in DOMAIN players : Disconnect(id)
    \/ \E spawn \in OnePoint : pillSeq < MaxLoadSpawns /\ SpawnTimer(spawn)

SpecLoad == InitLoad /\ [][NextLoad]_vars

\* the files that are missing or are not a document of the loader's shape
BadLedgerFiles == {"missing", "notJson", "null", "emptyArray"}
BadDailyFiles == {"missing", "notJson", "null", "emptyObject", "emptyArray"}
BadAllTimeFiles == {"missing", "notJson", "null", "emptyObject"}

\* C13 as stated: after a startup that found a file missing or malformed the
\* state the file is loaded into is the empty one (empty ledger, empty daily
\* map, empty all-time array), and no handler of a later score report throws.
C13_LoadersFallBackToEmpty ==
    /\ ~crashed
    /\ lastEvent.type = "boot" =>
          /\ lastEvent.files.ledger \in BadLedgerFiles => playerScores = <<>>
          /\ lastEvent.files.daily \in BadDailyFiles =>
                dailyLeaderboard.topScores = <<>>
          /\ lastEvent.files.allTime \in BadAllTimeFiles =>
                allTimeIsArray /\ allTimeLeaderboard = <<>>

---------------------------------------------------------------------------
(* The relay of a move *)

\* the connections a message goes to: io.emit reaches all of them,
\* socket.broadcast.emit all but the socket's own, socket.emit only that one
Recipients(m, connections) ==
    IF m.to = "all" THEN connections
    ELSE IF m.to = "others" THEN connections \ {m.conn}
    ELSE {m.conn}

\* C14: an accepted move sends exactly one playerUpdate; it goes to every
\* connection but the mover's own; it is the last message of the handler, so
\* it follows whatever the collection check of that move sent; and it carries
\* the mover's score as it stands after the handler, which is the score
\* before it plus the points of the pill the move collected, if any.
C14_MoveRelayedToOthers ==
    [][(lastEvent'.type = "move" /\ ~TooSoon(lastEvent'.conn)) =>
          LET id == lastEvent'.conn
              n == Len(emitted')
          IN /\ Count(emitted', "playerUpdate") = 1
             /\ emitted'[n].type = "playerUpdate"
             /\ emitted'[n].player.id = id
             /\ Recipients(emitted'[n], DOMAIN players') = DOMAIN players' \ {id}
             /\ emitted'[n].score = players'[id].score
             /\ emitted'[n].score =
                    players[id].score + PointsRemoved(pills, pills')]_vars

\* a move has just collected a pill while another player was connected: the
\* relay follows the collection's messages and carries the new score
C14_Witness ==
    /\ lastEvent.type = "move"
    /\ Cardinality(DOMAIN players) = 2
    /\ Count(emitted, "pillCollected") = 1
    /\ emitted[Len(emitted)].type = "playerUpdate"
    /\ emitted[Len(emitted)].score > 0
    /\ emitted[1].type = "pillCollected"

---------------------------------------------------------------------------
(* Disconnecting *)

\* the places of the messages of a type in what a handler sent
Places(out, type) == {i \in 1..Len(out) : out[i].type = type}

\* C15: the disconnect of a player with name n and score s removes the
\* player and broadcasts, after playerLeft, the number of players that
\* remain.  If s is not 0 the daily leaderboard gets n's entry set to s, the
\* token store gets exactly one new token, bound to (n, s, now), the token
\* is sent to the closing connection, and the leaderboard broadcast comes
\* before playerLeft; if s is 0 the token store and the daily leaderboard
\* stay as they are and no token is sent.
C15_DisconnectReportsAndMints ==
    [][lastEvent'.type = "disconnect" =>
          LET id == lastEvent'.conn
              p == players[id]
              minted == DOMAIN sessionTokens' \ DOMAIN sessionTokens
          IN /\ players' = Drop(players, id)
             /\ \E i \in Places(emitted', "playerLeft") :
                   /\ emitted'[i].conn = id
                   /\ Places(emitted', "playerCountUpdate") = {i + 1}
                   /\ emitted'[i + 1].count = Cardinality(DOMAIN players')
                   /\ \A j \in Places(emitted', "dailyLeaderboardUpdate") : j < i
             /\ \A t \in DOMAIN sessionTokens :
                   t \in DOMAIN sessionTokens' /\ sessionTokens'[t] = sessionTokens[t]
             /\ p.score # 0 =>
                   /\ Cardinality({j \in 1..Len(dailyLeaderboard'.topScores) :
                                      dailyLeaderboard'.topScores[j].name = p.name}) = 1
                   /\ HasEntry(dailyLeaderboard'.topScores, p.name, p.score)
                   /\ Count(emitted', "dailyLeaderboardUpdate") = 1
                   /\ Cardinality(minted) = 1
                   /\ \A t \in minted :
                         /\ sessionTokens'[t] =
                                [name |-> p.name, score |-> p.score, created |-> now]
                         /\ \E m \in Messages(emitted', "sessionToken") :
                               m.token = t /\ Recipients(m, DOMAIN players) = {id}
             /\ p.score = 0 =>
                   /\ minted = {}
                   /\ dailyLeaderboard' = dailyLeaderboard
                   /\ Count(emitted', "sessionToken") = 0]_vars

\* a player with a score has just disconnected while another player stays
\* connected: a token was sent and the count broadcast is 1
C15_Witness ==
    /\ lastEvent.type = "disconnect"
    /\ Count(emitted, "sessionToken") = 1
    /\ Cardinality(DOMAIN players) = 1
    /\ \E m \in Messages(emitted, "playerCountUpdate") : m.count = 1
    /\ \E m \in Messages(emitted, "sessionToken") :
          m.score > 0 /\ m.token \in DOMAIN sessionTokens

---------------------------------------------------------------------------
(* Daily reports: two players under one name, next to a full leaderboard *)

\* the process starts with no daily file or with one of today holding ten
\* entries
InitReport ==
    \E d \in {"missing", "fullDay"} :
        InitFrom(BootTime, [NoFiles EXCEPT !.daily = d])

NextReport ==
    \/ \E spawn \in OnePoint :
          nextPlayerId <= MaxReportConnections /\ Connect(spawn)
    \/ \E id \in DOMAIN players : SetUsername(id, NameA, NoToken)
    \/ \E id \in DOMAIN players, pt \in OnePoint : Move(id, pt)
    \/ \E id \in DOMAIN players : Disconnect(id)
    \/ \E spawn \in OnePoint : pillSeq < MaxReportSpawns /\ SpawnTimer(spawn)
    \/ Advance(MOVE_THROTTLE_MS, BootTime + MaxReportElapsed)

SpecReport == InitReport /\ [][NextReport]_vars

\* the step reports a score: an accepted move with a pill in reach, or the
\* disconnect of a player whose score is not 0
ReportsScore ==
    \/ /\ lastEvent'.type = "move"
       /\ ~TooSoon(lastEvent'.conn)
       /\ InReachOf(lastEvent'.x, lastEvent'.y, pills) # {}
    \/ /\ lastEvent'.type = "disconnect"
       /\ players[lastEvent'.conn].score # 0

\* the score reported: the mover's after the collection, the leaver's last
ReportedScore ==
    IF lastEvent'.type = "move" THEN players'[lastEvent'.conn].score
    ELSE players[lastEvent'.conn].score

EntriesOtherThan(topScores, name) ==
    {topScores[i] : i \in {k \in 1..Len(topScores) : topScores[k].name # name}}

\* C16: a score report for name n with score s leaves the daily leaderboard
\* with exactly one entry for n, of score s, whatever the entry was before,
\* and with the entries of all other names as they were; it broadcasts once
\* at most 10 entries of the leaderboard, sorted descending by score, none of
\* them lower than an entry left out, together with currentDay.
C16_DailyReportOverwrites ==
    [][ReportsScore =>
          LET n == players[lastEvent'.conn].name
              s == ReportedScore
              board == dailyLeaderboard'.topScores
          IN /\ Cardinality({i \in 1..Len(board) : board[i].name = n}) = 1
             /\ HasEntry(board, n, s)
             /\ EntriesOtherThan(board, n) =
                    EntriesOtherThan(dailyLeaderboard.topScores, n)
             /\ Count(emitted', "dailyLeaderboardUpdate") = 1
             /\ \A m \in Messages(emitted', "dailyLeaderboardUpdate") :
                   /\ Len(m.topScores) = Min2(10, Len(board))
                   /\ \A i \in 1..Len(m.topScores) :
                         \E j \in 1..Len(board) :
                            /\ board[j].name = m.topScores[i].name
                            /\ board[j].score = m.topScores[i].score
                   /\ \A i \in 1..(Len(m.topScores) - 1) :
                         m.topScores[i].score >= m.topScores[i + 1].score
                   /\ \A j \in 1..Len(board) :
                         (\A i \in 1..Len(m.topScores) :
                              m.topScores[i].name # board[j].name)
                         => board[j].score <= m.topScores[Len(m.topScores)].score
                   /\ m.currentDay = dailyLeaderboard'.currentDay]_vars

\* next to ten entries of other names, a player has just reported a score
\* lower than that of another connected player of the same name, whose
\* report came before: the entry of the name is the lower score, and the
\* leaderboard holds more entries than are broadcast
C16_Witness ==
    /\ lastEvent.type = "move"
    /\ Count(emitted, "dailyLeaderboardUpdate") = 1
    /\ Len(dailyLeaderboard.topScores) = 11
    /\ \E other \in DOMAIN players \ {lastEvent.conn} :
          /\ players[other].name = players[lastEvent.conn].name
          /\ players[other].score > players[lastEvent.conn].score
    /\ HasEntry(dailyLeaderboard.topScores, players[lastEvent.conn].name,
                players[lastEvent.conn].score)

---------------------------------------------------------------------------
(* The all-time leaderboard against the best score of every name *)

\* the k largest values of bestReported over the names in S, descending
RECURSIVE LargestBest(_, _)
LargestBest(S, k) ==
    IF k = 0 \/ S = {} THEN <<>>
    ELSE LET n == CHOOSE a \in S : \A b \in S : bestReported[a] >= bestReported[b]
         IN <<bestReported[n]>> \o LargestBest(S \ {n}, k - 1)

ScoresOf(board) == [i \in 1..Len(board) |-> board[i].score]

\* C17, the state: the scores on the all-time leaderboard, which is sorted,
\* are the 3 largest (all, if there are fewer than 3 names) of the best scores
\* reported per name, and the entry of a name holds that name's best score.
C17_BoardIsTopOfBest ==
    /\ ScoresOf(allTimeLeaderboard) = LargestBest(DOMAIN bestReported, 3)
    /\ \A i \in 1..Len(allTimeLeaderboard) :
          /\ allTimeLeaderboard[i].name \in DOMAIN bestReported
          /\ allTimeLeaderboard[i].score = bestReported[allTimeLeaderboard[i].name]

\* C17, the step: the score of a name's entry never decreases while the name
\* stays on the leaderboard.
C17_EntryNeverDecreases ==
    \A i \in 1..Len(allTimeLeaderboard), j \in 1..Len(allTimeLeaderboard') :
        allTimeLeaderboard[i].name = allTimeLeaderboard'[j].name
        => allTimeLeaderboard'[j].score >= allTimeLeaderboard[i].score

\* C17: starting from an empty all-time leaderboard, after any sequence of
\* score reports the scores on the leaderboard are the 3 largest of the best
\* score ever reported per name, and an entry is replaced only by a greater
\* score of its name.
C17_TopThreeOfBestPerName ==
    [](C17_BoardIsTopOfBest) /\ [][C17_EntryNeverDecreases]_vars

\* a player has just reported a score below the entry of its name, set by
\* another player of that name: the entry stayed, above the entry of
\* another name
C17_Witness ==
    /\ lastEvent.type = "move"
    /\ Count(emitted, "pillCollected") = 1
    /\ Len(allTimeLeaderboard) = 2
    /\ allTimeLeaderboard[1].name = players[lastEvent.conn].name
    /\ allTimeLeaderboard[1].score > players[lastEvent.conn].score
    /\ bestReported[allTimeLeaderboard[1].name] = allTimeLeaderboard[1].score

---------------------------------------------------------------------------
(* What the reset broadcasts *)

\* C18 as stated: the dailyLeaderboardReset broadcast by a tick carries the
\* new day and the time from the reset to the next midnight, which is more
\* than 0, and the timeUpdate of the same tick carries that same time.
C18_ResetCarriesNewRemainingTime ==
    [][(lastEvent'.type = "tick" /\ Count(emitted', "dailyLeaderboardReset") = 1)
       => /\ \A m \in Messages(emitted', "dailyLeaderboardReset") :
                /\ m.newDay = DateString(now)
                /\ m.timeRemaining = NextMidnight(now) - now
                /\ m.timeRemaining > 0
          /\ Count(emitted', "timeUpdate") = 1
          /\ \A m \in Messages(emitted', "timeUpdate") :
                m.timeRemaining = NextMidnight(now) - now]_vars

---------------------------------------------------------------------------
(* The ramp on the clock: both spawn timers firing when due, a player
   collecting at the spawn point *)

\* the next firing of a spawn timer
NextSpawnDue == IF rampActive THEN Min2(rampDue, spawnDue) ELSE spawnDue

NextRamp ==
    \/ \E spawn \in OnePoint : nextPlayerId <= MaxRampConnections /\ Connect(spawn)
    \/ \E id \in DOMAIN players, pt \in OnePoint : Move(id, pt)
    \/ \E spawn \in OnePoint : RampTimerDue(spawn)
    \/ \E spawn \in OnePoint : SpawnTimerDue(spawn)
    \/ Advance(RAMP_INTERVAL, Min2(NextSpawnDue, BootTime + MaxRampElapsed))

SpecRamp == Init /\ [][NextRamp]_vars

---------------------------------------------------------------------------
(* The end of the ramp *)

\* C19 as stated: the ramp timer has not stopped while the pool has never
\* yet held 30 pills.
C19_RampRunsUntilFirstFull == ~rampActive => everFull

---------------------------------------------------------------------------
(* Respawns: requests, disconnects and the callbacks three seconds later *)

NextRespawn ==
    \/ \E spawn \in OnePoint :
          nextPlayerId <= MaxRespawnConnections /\ Connect(spawn)
    \/ \E id \in DOMAIN players, pt \in OnePoint : Move(id, pt)
    \/ \E id \in DOMAIN players : Disconnect(id)
    \/ \E spawn \in OnePoint : pillSeq < MaxRespawnSpawns /\ SpawnTimer(spawn)
    \/ \E id \in DOMAIN players :
          Len(respawns) < MaxRespawnsPending /\ Respawn(id)
    \/ \E spawn \in SpawnPoints : RespawnTimer(spawn)
    \/ Advance(RESPAWN_TIME, BootTime + MaxRespawnElapsed)

SpecRespawn == Init /\ [][NextRespawn]_vars

\* the server state other than the registry and the pending respawns
serverButPlayersAndRespawns ==
    <<nextPlayerId, pills, pillSeq, playerScores, sessionTokens, tokenSeq,
      dailyLeaderboard, allTimeLeaderboard, initialPillsSpawned, rampActive,
      allTimeIsArray>>

\* C20, the request: it sets one more callback, due 3000 ms later, and does
\* nothing else
C20_Schedules ==
    lastEvent'.type = "respawn" =>
        /\ respawns' = Append(respawns, [conn |-> lastEvent'.conn,
                                         due |-> now + 3000])
        /\ emitted' = <<>>
        /\ UNCHANGED <<players, serverButPlayersAndRespawns>>

\* C20, the firing: not before its 3000 ms are over; for a player that is
\* gone it changes nothing and sends nothing; for a player in the registry
\* it sets health to maxHealth and the position to a new spawn point, leaves
\* every other field of the player and every other player as they were, and
\* broadcasts playerRespawned with the player to all
C20_Fires ==
    lastEvent'.type = "respawnFire" =>
        LET id == lastEvent'.conn
        IN /\ respawns # <<>>
           /\ respawns[1].conn = id
           /\ now >= respawns[1].due
           /\ respawns' = Tail(respawns)
           /\ UNCHANGED serverButPlayersAndRespawns
           /\ id \notin DOMAIN players => emitted' = <<>> /\ UNCHANGED players
           /\ id \in DOMAIN players =>
                 /\ players' = [players EXCEPT
                                   ![id].x = lastEvent'.x,
                                   ![id].y = lastEvent'.y,
                                   ![id].health = players[id].maxHealth]
                 /\ players'[id].score = players[id].score
                 /\ players'[id].name = players[id].name
                 /\ emitted' = <<[type |-> "playerRespawned", to |-> "all",
                                  player |-> players'[id]]>>

\* C20, no cancelling: nothing but its own firing takes a callback away, a
\* disconnect included
C20_NeverCancelled ==
    lastEvent'.type \notin {"respawn", "respawnFire"} => respawns' = respawns

\* C20: a respawn request sets its own callback, due 3000 ms later; nothing
\* cancels it; when it fires, it respawns the player if the player is still
\* in the registry and does nothing at all if it is not.
C20_RespawnOnlyIfConnected ==
    [][C20_Schedules /\ C20_Fires /\ C20_NeverCancelled]_vars

\* a player asked twice for a respawn and disconnected; the first callback
\* has just fired for the player that is gone, sending nothing, and the
\* second is still pending; another player is connected
C20_Witness ==
    /\ lastEvent.type = "respawnFire"
    /\ lastEvent.conn \notin DOMAIN players
    /\ emitted = <<>>
    /\ Len(respawns) = 1
    /\ respawns[1].conn = lastEvent.conn
    /\ DOMAIN players # {}

---------------------------------------------------------------------------
(* Namings: usernames that are empty, blank, padded and too long *)

\* " A ": trims to the name A
PaddedA == <<" ">> \o NameA \o <<"\t">>

\* a space, fourteen letters, a space, two letters and a space: 17
\* characters between the first and the last that is no space
PaddedLong ==
    <<" ">> \o [i \in 1..14 |-> "x"] \o <<" ", "y", "z", " ">>

\* the usernames a client sends
Usernames == {<<>>, <<" ", "\t">>, PaddedA, PaddedLong}

NextName ==
    \/ \E spawn \in OnePoint :
          nextPlayerId <= MaxNameConnections /\ Connect(spawn)
    \/ \E id \in DOMAIN players, username \in Usernames,
          token \in TokensPresented :
          SetUsername(id, username, token)
    \/ \E id \in DOMAIN players, pt \in OnePoint : Move(id, pt)
    \/ \E id \in DOMAIN players : Disconnect(id)
    \/ \E spawn \in OnePoint : pillSeq < MaxNameSpawns /\ SpawnTimer(spawn)

SpecName == Init /\ [][NextName]_vars

\* the places of a username that hold no whitespace
Inked(username) == {i \in 1..Len(username) : username[i] \notin {" ", "\t"}}

\* C21: a setUsername whose username is empty or all whitespace changes
\* nothing of the server (name, score, ledger, token store, leaderboards),
\* whatever token comes with it, and sends nothing; any other username names
\* the player by its characters from the first that is no whitespace to the
\* last that is none, cut after the 15th.
C21_BlankNameIsNoOp ==
    [][lastEvent'.type = "setUsername" =>
          LET id == lastEvent'.conn
              username == lastEvent'.username
              first == CHOOSE i \in Inked(username) : \A j \in Inked(username) : i <= j
              last == CHOOSE i \in Inked(username) : \A j \in Inked(username) : i >= j
          IN IF Inked(username) = {}
             THEN emitted' = <<>> /\ UNCHANGED server
             ELSE /\ players'[id].name =
                         SubSeq(username, first, Min2(last, first + 14))
                  /\ Len(players'[id].name) <= 15]_vars

\* a player with a score has just sent a blank username together with a
\* token that is in the store: nothing was sent and the score is still there
C21_Witness ==
    /\ lastEvent.type = "setUsername"
    /\ lastEvent.username = <<" ", "\t">>
    /\ lastEvent.token \in DOMAIN sessionTokens
    /\ emitted = <<>>
    /\ lastEvent.conn \in DOMAIN players
    /\ players[lastEvent.conn].score > 0
    /\ sessionTokens[lastEvent.token].name = players[lastEvent.conn].name
    /\ Len(players[lastEvent.conn].name) = 15

---------------------------------------------------------------------------
(* Incomplete moves: payloads that lack a coordinate *)

\* what a client sends as a move: a position in reach of the spawn point,
\* the same without its x, and the spawn point without its y
MovePayloads == {<<130, 100>>, <<Undefined, 100>>, <<100, Undefined>>}

NextPayload ==
    \/ \E spawn \in OnePoint :
          nextPlayerId <= MaxPayloadConnections /\ Connect(spawn)
    \/ \E id \in DOMAIN players, pt \in MovePayloads : Move(id, pt)
    \/ \E spawn \in OnePoint : pillSeq < MaxPayloadSpawns /\ SpawnTimer(spawn)
    \/ Advance(MOVE_THROTTLE_MS, BootTime + MaxPayloadElapsed)

SpecPayload == Init /\ [][NextPayload]_vars

\* the move the step handles lacks x or y
LacksCoordinate ==
    /\ lastEvent'.type = "move"
    /\ ~(IsNumber(lastEvent'.x) /\ IsNumber(lastEvent'.y))

\* C22 as stated: after a move that lacks a coordinate the player's stored
\* position is a pair of numbers, no pill has left the pool, no error
\* message was sent and the process goes on.
C22_IncompleteMoveHarmless ==
    [][LacksCoordinate =>
          LET id == lastEvent'.conn
          IN /\ IsNumber(players'[id].x)
             /\ IsNumber(players'[id].y)
             /\ pills' = pills
             /\ Count(emitted', "error") = 0
             /\ ~crashed']_vars

\* the part of C22 that the code keeps: no collection, no error message, no
\* end of the process
C22_NoCollectionNoError ==
    [][LacksCoordinate =>
          /\ pills' = pills
          /\ Count(emitted', "error") = 0
          /\ ~crashed']_vars

---------------------------------------------------------------------------
(* Every pill is collected at most once *)

\* ids of the pills of the pool
PoolIds == {pills[i].id : i \in 1..Len(pills)}

\* C23: no two pillCollected messages ever carry the same pill id, and a
\* pill that was credited to a player is in the pool in no later state, so
\* that no second player can be credited with it.
C23_CollectedAtMostOnce ==
    /\ \A id \in DOMAIN collected : collected[id] = 1
    /\ DOMAIN collected \cap PoolIds = {}

\* a pill was credited to one player, and another player, who has collected
\* nothing, has just had a move relayed from a place in reach of where that
\* pill lay, with nothing to collect there
C23_Witness ==
    /\ collected # <<>>
    /\ pills = <<>>
    /\ lastEvent.type = "move"
    /\ \A spawn \in OnePoint :
          InReach(lastEvent.x, lastEvent.y, [x |-> spawn[1], y |-> spawn[2]])
    /\ Count(emitted, "playerUpdate") = 1
    /\ Count(emitted, "pillCollected") = 0
    /\ players[lastEvent.conn].score = 0
    /\ \E id \in DOMAIN players : id # lastEvent.conn /\ players[id].score > 0

---------------------------------------------------------------------------
(* The day of the entries of the daily leaderboard *)

\* C24 as stated: every entry of the daily leaderboard was reported on the
\* calendar day named by currentDay, reports that arrive after midnight and
\* before the tick that resets included.
C24_EntriesReportedOnCurrentDay ==
    \A i \in 1..Len(dailyLeaderboard.topScores) :
        DateString(dailyLeaderboard.topScores[i].timestamp)
            = dailyLeaderboard.currentDay

====
